---- MODULE Spec2Model ----
(***************************************************************************)
(* Model of notion-bills-tracker: the pipeline controller main()           *)
(* (src/src/main.py), the mail source (src/src/gmail_client.py), the       *)
(* extractor (src/src/gemini_processor.py) and the record / run-log sink   *)
(* (src/src/notion_client.py).                                             *)
(*                                                                         *)
(* Text is a sequence of one-character strings, so that the regular        *)
(* expressions of _clean_email_body and substring tests act on characters. *)
(* An optional value is <<>> (Python None) or <<v>>.                       *)
(***************************************************************************)
EXTENDS Integers, Sequences, FiniteSets, TLC

\* ------------------------------------------------------------------ bounds
MaxEmails == 2
MaxChunks == 4

\* ------------------------------------------------------------ text helpers
None == <<>>
Some(v) == <<v>>

NL == "\n"

Min(S) == CHOOSE x \in S : \A y \in S : x <= y
Max(S) == CHOOSE x \in S : \A y \in S : x >= y

\* p occurs in s at position i
MatchAt(s, p, i) ==
    /\ i >= 1
    /\ i + Len(p) - 1 <= Len(s)
    /\ \A k \in 1..Len(p) : s[i + k - 1] = p[k]

Occ(s, p) == {i \in 1..Len(s) : MatchAt(s, p, i)}

Drop(s, n) == SubSeq(s, n + 1, Len(s))

\* re.sub(r"<p>.*", "", text, flags=re.DOTALL): cut from the first p to the end
TruncateAt(s, p) ==
    IF Occ(s, p) = {} THEN s ELSE SubSeq(s, 1, Min(Occ(s, p)) - 1)

\* re.sub(r"<a>.*<b>", "", text, flags=re.DOTALL): the leftmost a, greedily up
\* to the last b that starts after it; nothing can match after the last b
RemoveSpan(s, a, b) ==
    IF Occ(s, a) = {} THEN s
    ELSE LET i  == Min(Occ(s, a))
             js == {j \in Occ(s, b) : j >= i + Len(a)}
         IN  IF js = {} THEN s
             ELSE SubSeq(s, 1, i - 1) \o Drop(s, Max(js) + Len(b) - 1)

\* re.sub(r"<p>", "", text): every non-overlapping p, left to right
RECURSIVE RemoveAll(_, _)
RemoveAll(s, p) ==
    IF Occ(s, p) = {} THEN s
    ELSE LET i == Min(Occ(s, p))
         IN  SubSeq(s, 1, i - 1) \o RemoveAll(Drop(s, i + Len(p) - 1), p)

\* length of the longest prefix of s that holds no newline ('.' excludes \n)
LineLen(s) ==
    IF Occ(s, <<NL>>) = {} THEN Len(s) ELSE Min(Occ(s, <<NL>>)) - 1

\* re.sub(r"(\n>.*)+", "", text): a newline followed by '>' and the rest of
\* that line, repeated; a '>' that opens the text has no newline before it
RECURSIVE RemoveQuoted(_)
RemoveQuoted(s) ==
    IF Occ(s, <<NL, ">">>) = {} THEN s
    ELSE LET i    == Min(Occ(s, <<NL, ">">>))
             rest == Drop(s, i + 1)
         IN  SubSeq(s, 1, i - 1) \o RemoveQuoted(Drop(rest, LineLen(rest)))

\* re.sub(r"<a>.*<b>", "", text) without DOTALL: a leftmost a and the last b
\* after it on the same line
SpanEnds(s, a, b, i) ==
    LET rest == Drop(s, i + Len(a) - 1)
    IN  {j \in Occ(rest, b) : j + Len(b) - 1 <= LineLen(rest)}

RECURSIVE RemoveSpanInLine(_, _, _)
RemoveSpanInLine(s, a, b) ==
    LET starts == {i \in Occ(s, a) : SpanEnds(s, a, b, i) # {}}
    IN  IF starts = {} THEN s
        ELSE LET i    == Min(starts)
                 rest == Drop(s, i + Len(a) - 1)
                 j    == Max(SpanEnds(s, a, b, i))
             IN  SubSeq(s, 1, i - 1)
                     \o RemoveSpanInLine(Drop(rest, j + Len(b) - 1), a, b)

\* length of the run of newlines that opens s
NewlineRun(s) ==
    LET others == {i \in 1..Len(s) : s[i] # NL}
    IN  IF others = {} THEN Len(s) ELSE Min(others) - 1

\* re.sub(r"\n{3,}", "\n\n", text)
RECURSIVE CollapseNewlines(_)
CollapseNewlines(s) ==
    IF Occ(s, <<NL, NL, NL>>) = {} THEN s
    ELSE LET i    == Min(Occ(s, <<NL, NL, NL>>))
             rest == Drop(s, i - 1)
         IN  SubSeq(s, 1, i - 1) \o <<NL, NL>>
                 \o CollapseNewlines(Drop(rest, NewlineRun(rest)))

Whitespace == {" ", NL, "\t", "\r", "\f"}

\* str.strip()
Strip(s) ==
    LET solid == {i \in 1..Len(s) : s[i] \notin Whitespace}
    IN  IF solid = {} THEN <<>> ELSE SubSeq(s, Min(solid), Max(solid))

\* ------------------------------------------------------ markup to text
TagNameStart == {"b", "p", "/"}

Entities ==
    << << <<"&","g","t",";">>, ">" >>,
       << <<"&","l","t",";">>, "<" >>,
       << <<"&","a","m","p",";">>, "&" >> >>

\* a tag opens at i: '<', a name character, and a closing '>' further on
TagAt(s, i) ==
    /\ s[i] = "<"
    /\ i < Len(s)
    /\ s[i + 1] \in TagNameStart
    /\ \E j \in (i + 2)..Len(s) : s[j] = ">"

EntityAt(s, i) == {e \in 1..Len(Entities) : MatchAt(s, Entities[e][1], i)}

\* BeautifulSoup(body, "lxml").get_text() on text whose only markup is
\* tags "<name ...>" and the entities above: a tag is dropped, an entity is
\* decoded (once), every other character is kept
RECURSIVE GetText(_)
GetText(s) ==
    LET marks == {i \in 1..Len(s) : TagAt(s, i) \/ EntityAt(s, i) # {}}
    IN  IF marks = {} THEN s
        ELSE LET i == Min(marks)
             IN  IF TagAt(s, i)
                 THEN SubSeq(s, 1, i - 1)
                        \o GetText(Drop(s, Min({j \in (i + 2)..Len(s) : s[j] = ">"})))
                 ELSE LET e == Min(EntityAt(s, i))
                      IN  SubSeq(s, 1, i - 1) \o <<Entities[e][2]>>
                            \o GetText(Drop(s, i + Len(Entities[e][1]) - 1))

\* -------------------------------------------------- _clean_email_body
ForwardedMarker == <<"-","-","-","-","-","-","-","-","-","-"," ","F","o","r","w","a","r","d","e","d"," ","m","e","s","s","a","g","e"," ","-","-","-","-","-","-","-","-","-">>
OnLit == <<"O","n">>
WroteLit == <<"w","r","o","t","e",":">>
SignatureMarker == <<NL, "-", "-">>
AlertStart == <<"Y","o","u"," ","a","r","e"," ","r","e","c","e","i","v","i","n","g"," ","t","h","i","s"," ","a","l","e","r","t"," ","b","e","c","a","u","s","e">>
AlertEnd == <<"a","c","c","o","u","n","t",".">>
ReviewAccount == <<"R","e","v","i","e","w"," ","a","c","c","o","u","n","t">>
SecurelyStart == <<"S","e","c","u","r","e","l","y"," ","a","c","c","e","s","s"," ","y","o","u","r"," ","a","c","c","o","u","n","t","s"," ","w","i","t","h">>
SecurelyEnd == <<"c","h","a","s","e",".","c","o","m",".">>
AboutThisMessage == <<"A","b","o","u","t"," ","t","h","i","s"," ","m","e","s","s","a","g","e">>

RemoveForwarded(t) == TruncateAt(t, ForwardedMarker)
RemoveOnWrote(t) == RemoveSpan(t, OnLit, WroteLit)
RemoveSignature(t) == TruncateAt(t, SignatureMarker)
RemoveBoilerplate(t) ==
    LET t1 == RemoveSpan(t, AlertStart, AlertEnd)
        t2 == RemoveAll(t1, ReviewAccount)
        t3 == RemoveSpanInLine(t2, SecurelyStart, SecurelyEnd)
    IN  TruncateAt(t3, AboutThisMessage)

clean_email_body(body) ==
    LET text == GetText(body)
        t1 == RemoveForwarded(text)
        t2 == RemoveOnWrote(t1)
        t3 == RemoveQuoted(t2)
        t4 == RemoveSignature(t3)
        t5 == RemoveBoilerplate(t4)
        t6 == CollapseNewlines(t5)
    IN  Strip(t6)

\* ------------------------------------------------------------ BillInfo
Unknown == <<"U","n","k","n","o","w","n">>
VILLAGE == <<"V","I","L","L","A","G","E">>
BARCLAY_VILLAGE == <<"B","A","R","C","L","A","Y"," ","V","I","L","L","A","G","E">>
BarclayVillageMixed == <<"B","a","r","c","l","a","y"," ","V","i","l","l","a","g","e">>
SHOP == <<"S","H","O","P">>

\* class BillInfo: four independently optional fields
BillInfo(m, a, c, d) == [merchant |-> m, amount |-> a, bill_category |-> c, date |-> d]

EmptyBill == BillInfo(None, None, None, None)

\* the records the language model is taken to answer with
BillInfos ==
    { EmptyBill,
      BillInfo(Some(BARCLAY_VILLAGE), Some(1635), None, Some("2025-09-04")),
      BillInfo(Some(BarclayVillageMixed), None, None, None),
      BillInfo(Some(SHOP), Some(5), None, None),
      BillInfo(Some(SHOP), Some(-5), Some("shopping"), Some("2025-09-04")),
      BillInfo(None, Some(5), Some("dining"), None),
      BillInfo(None, None, None, Some("2025-09-04")) }

\* what one call of self.bill_extractor(...) does: raise, or answer a BillInfo
ProviderOutcomes == {[raised |-> TRUE, bill_info |-> EmptyBill]}
                        \cup {[raised |-> FALSE, bill_info |-> b] : b \in BillInfos}

extract_bill_info_propagates(outcome) == Some(outcome.bill_info)

\* GeminiProcessor.extract_bill_info: any exception becomes None
extract_bill_info(outcome) ==
    IF outcome.raised THEN None ELSE Some(outcome.bill_info)

\* `if bill_info:` a BillInfo object is truthy whatever its fields, None is not
Truthy(bill) == bill # None

\* the mapping files _load_bill_category_mapping may find: none (or a
\* broken one) gives {}, else the key -> category pairs in file order
Mappings ==
    { <<>>,
      << <<VILLAGE, "dining">>, <<BARCLAY_VILLAGE, "shopping">> >> }

\* BillExtractor.__init__: one guidance rule per mapping entry, in order
mapping_str(mapping) ==
    [k \in 1..Len(mapping) |->
        <<"- If merchant contains '", mapping[k][1], "', category is '", mapping[k][2], "'">>]

\* ------------------------------------------------- add_bill_to_notion
\* Python `x or default` on an optional text, number, label
OrText(opt, default) == IF opt = None \/ opt[1] = <<>> THEN default ELSE opt[1]
OrNumber(opt, default) == IF opt = None \/ opt[1] = 0 THEN default ELSE opt[1]
OrLabel(opt, default) == IF opt = None \/ opt[1] = "" THEN default ELSE opt[1]

\* the page properties add_bill_to_notion posts ("other" stands for the
\* source's default select name, "2024-01-01" is its default date)
Properties(b) ==
    [ title  |-> OrText(b.merchant, Unknown),
      number |-> OrNumber(b.amount, 0),
      select |-> OrLabel(b.bill_category, "other"),
      date   |-> OrLabel(b.date, "2024-01-01") ]

\* what requests.post does: a response with a status code, or it raises
StatusCodes == {200, 400}
Errors == {"HttpError", "ConnectionError"}

\* the value add_bill_to_notion / log_workflow_run return for a status code
SinkReturn(code) == IF code = 200 THEN Some("page") ELSE None

\* ---------------------------------------------------------------- main
EnvVars == {"GEMINI_API_KEY", "NOTION_API_KEY", "NOTION_DATABASE_ID",
            "NOTION_WORKFLOW_DATABASE_ID"}

\* `if not all([...])`: every variable set (and non-empty)
AllSet(e) == EnvVars \subseteq e

FailureNotesWithoutError(e) == <<"Workflow failed.">>

\* f"Workflow failed with error: {e}", as its pieces
FailureNotes(e) == <<"Workflow failed with error: ", e>>

\* the raw body the mail source holds for a message
RawBody(id) ==
    IF id % 2 = 1
    THEN <<"<","b",">","x","<","/","b",">",NL,">","q",NL,"-","-","s">>
    ELSE <<"O","n"," ","x"," ","w","r","o","t","e",":",NL,NL,NL,NL,"y"," ">>

VARIABLES
    pc,              \* where main() stands
    env,             \* the environment variables that are set
    unread,          \* ids of the messages carrying the UNREAD label
    mapping,         \* GeminiProcessor.bill_category_mapping
    unread_emails,   \* main's list of fetched emails
    i,               \* position of the for loop in unread_emails
    bill_info,       \* main's bill_info for the current email
    workflow_status,
    workflow_notes,
    caught,          \* the exception the except clause holds, if any
    fetched,         \* "no", "ok", "raised": how get_unread_emails ended
    extractCalls,    \* history: extract_bill_info calls
    sinkCalls,       \* history: add_bill_to_notion calls
    markCalls,       \* history: mark_email_as_read calls
    logCalls,        \* history: log_workflow_run calls
    events,          \* history: the calls main made for items and the log, in order
    raw,             \* normalizer harness: the body handed in
    out              \* normalizer harness: the outputs of the passes so far

mainVars == <<pc, env, unread, mapping, unread_emails, i, bill_info,
              workflow_status, workflow_notes, caught, fetched,
              extractCalls, sinkCalls, markCalls, logCalls, events>>
cleanVars == <<raw, out>>
vars == <<mainVars, cleanVars>>

InitMain ==
    /\ pc = "start"
    /\ env \in SUBSET EnvVars
    /\ \E n \in 0..MaxEmails : unread = 1..n
    /\ mapping = <<>>
    /\ unread_emails = <<>>
    /\ i = 1
    /\ bill_info = None
    /\ workflow_status = "unset"
    /\ workflow_notes = <<>>
    /\ caught = None
    /\ fetched = "no"
    /\ extractCalls = <<>>
    /\ sinkCalls = <<>>
    /\ markCalls = <<>>
    /\ logCalls = <<>>
    /\ events = <<>>

InitCleanIdle ==
    /\ raw = <<>>
    /\ out = <<>>

Init == InitMain /\ InitCleanIdle

\* main.py 12-20: load_dotenv, open and parse config/gmail_config.yaml
LoadConfig ==
    /\ pc = "start"
    /\ \E ok \in BOOLEAN : pc' = IF ok THEN "gmail" ELSE "crashed"
    /\ UNCHANGED <<env, unread, mapping, unread_emails, i, bill_info,
                   workflow_status, workflow_notes, caught, fetched,
                   extractCalls, sinkCalls, markCalls, logCalls, events, cleanVars>>

\* main.py 22: GmailClient(...) authenticates; a failure leaves main
ConstructGmailClient ==
    /\ pc = "gmail"
    /\ \E ok \in BOOLEAN : pc' = IF ok THEN "env" ELSE "crashed"
    /\ UNCHANGED <<env, unread, mapping, unread_emails, i, bill_info,
                   workflow_status, workflow_notes, caught, fetched,
                   extractCalls, sinkCalls, markCalls, logCalls, events, cleanVars>>

\* main.py 23-44: the four variables are read; if one is missing the status
\* and notes are set and main returns
CheckEnv ==
    /\ pc = "env"
    /\ IF AllSet(env)
       THEN /\ pc' = "construct"
            /\ UNCHANGED <<workflow_status, workflow_notes>>
       ELSE /\ workflow_status' = "Failed"
            /\ workflow_notes' = <<"Missing environment variables.">>
            /\ pc' = "done"
    /\ UNCHANGED <<env, unread, mapping, unread_emails, i, bill_info,
                   caught, fetched,
                   extractCalls, sinkCalls, markCalls, logCalls, events, cleanVars>>

\* main.py 46-68: GeminiProcessor (loads the mapping, configures the model,
\* re-raises a failure), NotionClient, the Success defaults
ConstructProcessors ==
    /\ pc = "construct"
    /\ \E ok \in BOOLEAN, m \in Mappings :
          IF ok
          THEN /\ mapping' = m
               /\ workflow_status' = "Success"
               /\ workflow_notes' = <<"Successfully processed all bills.">>
               /\ pc' = "fetch"
          ELSE /\ pc' = "crashed"
               /\ UNCHANGED <<mapping, workflow_status, workflow_notes>>
    /\ UNCHANGED <<env, unread, unread_emails, i, bill_info, caught, fetched,
                   extractCalls, sinkCalls, markCalls, logCalls, events, cleanVars>>

\* GmailClient.get_unread_emails: the unread messages in listing order, each
\* body cleaned
get_unread_emails(ids) ==
    [k \in 1..Cardinality(ids) |->
        LET id == CHOOSE m \in ids : Cardinality({j \in ids : j < m}) = k - 1
        IN  [id |-> id, body |-> clean_email_body(RawBody(id))]]

\* main.py 71-72
Fetch ==
    /\ pc = "fetch"
    /\ \/ /\ unread_emails' = get_unread_emails(unread)
          /\ fetched' = "ok"
          /\ i' = 1
          /\ pc' = "loop"
          /\ UNCHANGED caught
       \/ \E e \in Errors :
             /\ caught' = Some(e)
             /\ fetched' = "raised"
             /\ pc' = "except"
             /\ UNCHANGED <<unread_emails, i>>
    /\ UNCHANGED <<env, unread, mapping, bill_info,
                   workflow_status, workflow_notes,
                   extractCalls, sinkCalls, markCalls, logCalls, events, cleanVars>>

\* main.py 74-78, 83-84: the next email is extracted; a falsy result is
\* logged as "no bill" and the loop goes on
Extract ==
    /\ pc = "loop"
    /\ i <= Len(unread_emails)
    /\ \E outcome \in ProviderOutcomes :
          LET result == extract_bill_info(outcome)
          IN  /\ bill_info' = result
              /\ extractCalls' = Append(extractCalls,
                                        [id |-> unread_emails[i].id,
                                         raised |-> outcome.raised,
                                         result |-> result])
              /\ IF Truthy(result)
                 THEN pc' = "store" /\ UNCHANGED i
                 ELSE pc' = "loop" /\ i' = i + 1
    /\ events' = Append(events, [op |-> "extract", id |-> unread_emails[i].id])
    /\ UNCHANGED <<env, unread, mapping, unread_emails,
                   workflow_status, workflow_notes, caught, fetched,
                   sinkCalls, markCalls, logCalls, cleanVars>>

LoopEndSkipsLog ==
    /\ pc = "loop"
    /\ i > Len(unread_emails)
    /\ pc' = "done"
    /\ UNCHANGED <<env, unread, mapping, unread_emails, i, bill_info,
                   workflow_status, workflow_notes, caught, fetched,
                   extractCalls, sinkCalls, markCalls, logCalls, events, cleanVars>>

\* main.py 74: the list is exhausted
LoopEnd ==
    /\ pc = "loop"
    /\ i > Len(unread_emails)
    /\ pc' = "finally"
    /\ UNCHANGED <<env, unread, mapping, unread_emails, i, bill_info,
                   workflow_status, workflow_notes, caught, fetched,
                   extractCalls, sinkCalls, markCalls, logCalls, events, cleanVars>>

\* main.py 79-80: add_bill_to_notion posts the page; its return value (None
\* on a non-200 response) is dropped; an exception of the post reaches the
\* except clause, as does the attribute access on a None bill_info
AddBill ==
    /\ pc = "store"
    /\ IF bill_info = None
       THEN /\ caught' = Some("AttributeError")
            /\ pc' = "except"
            /\ UNCHANGED sinkCalls
       ELSE \/ \E code \in StatusCodes :
                 /\ sinkCalls' = Append(sinkCalls,
                        [id |-> unread_emails[i].id,
                         bill |-> bill_info[1],
                         properties |-> Properties(bill_info[1]),
                         returned |-> SinkReturn(code),
                         raised |-> FALSE])
                 /\ pc' = "mark"
                 /\ UNCHANGED caught
            \/ \E e \in Errors :
                 /\ sinkCalls' = Append(sinkCalls,
                        [id |-> unread_emails[i].id,
                         bill |-> bill_info[1],
                         properties |-> Properties(bill_info[1]),
                         returned |-> None,
                         raised |-> TRUE])
                 /\ caught' = Some(e)
                 /\ pc' = "except"
    /\ events' = IF bill_info = None THEN events
                  ELSE Append(events, [op |-> "sink", id |-> unread_emails[i].id])
    /\ UNCHANGED <<env, unread, mapping, unread_emails, i, bill_info,
                   workflow_status, workflow_notes, fetched,
                   extractCalls, markCalls, logCalls, cleanVars>>

MarkReadStaysOnItem ==
    /\ pc = "mark"
    /\ \/ /\ markCalls' = Append(markCalls, [id |-> unread_emails[i].id, raised |-> FALSE])
          /\ unread' = unread \ {unread_emails[i].id}
          /\ i' = i
          /\ pc' = "loop"
          /\ UNCHANGED caught
       \/ \E e \in Errors :
             /\ markCalls' = Append(markCalls, [id |-> unread_emails[i].id, raised |-> TRUE])
             /\ caught' = Some(e)
             /\ pc' = "except"
             /\ UNCHANGED <<unread, i>>
    /\ events' = Append(events, [op |-> "mark", id |-> unread_emails[i].id])
    /\ UNCHANGED <<env, mapping, unread_emails, bill_info,
                   workflow_status, workflow_notes, fetched,
                   extractCalls, sinkCalls, logCalls, cleanVars>>

\* main.py 81-82: mark_email_as_read removes the UNREAD label or raises
MarkRead ==
    /\ pc = "mark"
    /\ \/ /\ markCalls' = Append(markCalls, [id |-> unread_emails[i].id, raised |-> FALSE])
          /\ unread' = unread \ {unread_emails[i].id}
          /\ i' = i + 1
          /\ pc' = "loop"
          /\ UNCHANGED caught
       \/ \E e \in Errors :
             /\ markCalls' = Append(markCalls, [id |-> unread_emails[i].id, raised |-> TRUE])
             /\ caught' = Some(e)
             /\ pc' = "except"
             /\ UNCHANGED <<unread, i>>
    /\ events' = Append(events, [op |-> "mark", id |-> unread_emails[i].id])
    /\ UNCHANGED <<env, mapping, unread_emails, bill_info,
                   workflow_status, workflow_notes, fetched,
                   extractCalls, sinkCalls, logCalls, cleanVars>>

\* main.py 86-89
Except ==
    /\ pc = "except"
    /\ workflow_status' = "Failed"
    /\ workflow_notes' = FailureNotes(caught[1])
    /\ pc' = "finally"
    /\ UNCHANGED <<env, unread, mapping, unread_emails, i, bill_info,
                   caught, fetched,
                   extractCalls, sinkCalls, markCalls, logCalls, events, cleanVars>>

\* main.py 90-101: log_workflow_run posts the run log; a non-200 response is
\* logged and None returned, an exception of the post leaves main
LogRun ==
    /\ pc = "finally"
    /\ \/ \E code \in StatusCodes :
             /\ logCalls' = Append(logCalls,
                    [status |-> workflow_status, notes |-> workflow_notes,
                     returned |-> SinkReturn(code), raised |-> FALSE])
             /\ pc' = "done"
       \/ /\ logCalls' = Append(logCalls,
                    [status |-> workflow_status, notes |-> workflow_notes,
                     returned |-> None, raised |-> TRUE])
          /\ pc' = "crashed"
    /\ events' = Append(events, [op |-> "log", id |-> 0])
    /\ UNCHANGED <<env, unread, mapping, unread_emails, i, bill_info,
                   workflow_status, workflow_notes, caught, fetched,
                   extractCalls, sinkCalls, markCalls, cleanVars>>

Next ==
    \/ LoadConfig
    \/ ConstructGmailClient
    \/ CheckEnv
    \/ ConstructProcessors
    \/ Fetch
    \/ Extract
    \/ LoopEnd
    \/ AddBill
    \/ MarkRead
    \/ Except
    \/ LogRun

Spec == Init /\ [][Next]_vars

\* main() has ended: it returned or an exception left it
Ended == pc \in {"done", "crashed"}

\* ------------------------------------------- normalizer on its own
\* the pieces bodies are built from
Chunks ==
    { <<"x">>, <<" ">>, <<NL>>, <<">">>, <<"-">>, OnLit, WroteLit, ReviewAccount,
      <<"<","b",">">>, <<"&","g","t",";">>,
      ForwardedMarker, AlertStart, AlertEnd, SecurelyStart, SecurelyEnd,
      AboutThisMessage }

RECURSIVE Concat(_)
Concat(ss) == IF ss = <<>> THEN <<>> ELSE ss[1] \o Concat(Tail(ss))

Bodies == {Concat(ss) : ss \in UNION {[1..n -> Chunks] : n \in 0..MaxChunks}}

IdleMain ==
    /\ pc = "idle"
    /\ env = {}
    /\ unread = {}
    /\ mapping = <<>>
    /\ unread_emails = <<>>
    /\ i = 1
    /\ bill_info = None
    /\ workflow_status = "unset"
    /\ workflow_notes = <<>>
    /\ caught = None
    /\ fetched = "no"
    /\ extractCalls = <<>>
    /\ sinkCalls = <<>>
    /\ markCalls = <<>>
    /\ logCalls = <<>>
    /\ events = <<>>

InitClean ==
    /\ IdleMain
    /\ raw \in Bodies
    /\ out = <<>>

\* _clean_email_body(body)
Normalize ==
    /\ pc = "idle"
    /\ out = <<>>
    /\ out' = <<clean_email_body(raw)>>
    /\ UNCHANGED <<raw, mainVars>>

\* _clean_email_body applied to its own output
NormalizeAgain ==
    /\ pc = "idle"
    /\ Len(out) = 1
    /\ out' = Append(out, clean_email_body(out[1]))
    /\ UNCHANGED <<raw, mainVars>>

NextClean == Normalize \/ NormalizeAgain

SpecClean == InitClean /\ [][NextClean]_vars

\* ---------------------------------------------------------------- claims
SinkCallsFor(id) == {s \in 1..Len(sinkCalls) : sinkCalls[s].id = id}
MarkCallsFor(id) == {m \in 1..Len(markCalls) : markCalls[m].id = id}

\* C1: mark_email_as_read is called for an email only if add_bill_to_notion
\* for that email succeeded (returned a page); an email whose sink write
\* failed is still unread when the run has ended.
MarkReadOnlyAfterStored ==
    /\ \A m \in 1..Len(markCalls) :
          \E s \in SinkCallsFor(markCalls[m].id) : sinkCalls[s].returned # None
    /\ Ended =>
          \A s \in 1..Len(sinkCalls) :
              sinkCalls[s].returned = None => sinkCalls[s].id \in unread

\* C2: when main() has ended, on whatever path, log_workflow_run was called
\* exactly once.
ExactlyOneRunLog == Ended => Len(logCalls) = 1

\* C3: a run that stopped because a required environment variable is missing
\* fetched nothing, wrote nothing to the sink, marked nothing read, and wrote
\* a run log with status Failed.
MissingCredentialRunLogged ==
    (Ended /\ pc = "done" /\ ~AllSet(env)) =>
        /\ fetched = "no"
        /\ sinkCalls = <<>>
        /\ markCalls = <<>>
        /\ Len(logCalls) = 1
        /\ logCalls[1].status = "Failed"

\* C4: an extracted record whose four fields are all empty is never written
\* to the sink, and its email is still unread when the run has ended.
EmptyBillNotForwarded ==
    \A k \in 1..Len(extractCalls) :
        extractCalls[k].result = Some(EmptyBill) =>
            /\ SinkCallsFor(extractCalls[k].id) = {}
            /\ Ended => extractCalls[k].id \in unread

\* C5: whatever fails for an item, every item of the fetched batch has been
\* extracted by the time the run has ended.
EveryItemProcessed ==
    (Ended /\ fetched = "ok") => Len(extractCalls) = Len(unread_emails)

\* C6: when the provider call raises for item k, extract_bill_info returns
\* None, nothing is written to the sink and nothing marked read for that item,
\* the loop has moved past it, the next item (if any) is extracted before the
\* run ends, and the status stays Success as long as no exception was caught.
ExtractionFailureSkipsItem ==
    \A k \in 1..Len(extractCalls) :
        extractCalls[k].raised =>
            /\ extractCalls[k].result = None
            /\ SinkCallsFor(extractCalls[k].id) = {}
            /\ MarkCallsFor(extractCalls[k].id) = {}
            /\ i > k
            /\ (Ended /\ k < Len(unread_emails)) => Len(extractCalls) > k
            /\ caught = None => workflow_status = "Success"

ExtractionFailureSeen ==
    /\ pc = "done"
    /\ Len(extractCalls) = 2
    /\ extractCalls[1].raised
    /\ ~extractCalls[2].raised
    /\ workflow_status = "Success"

\* text occurs among the pieces of notes
Contains(notes, text) == \E k \in 1..Len(notes) : notes[k] = text

\* C7: when get_unread_emails raises, no item is extracted, stored or marked
\* read; from the finally clause on the status is Failed and the notes hold
\* the error text; and the run log written carries that status and those
\* notes.
FetchFailureLogged ==
    fetched = "raised" =>
        /\ extractCalls = <<>> /\ sinkCalls = <<>> /\ markCalls = <<>>
        /\ pc \in {"finally", "done", "crashed"} =>
              /\ workflow_status = "Failed"
              /\ Contains(workflow_notes, caught[1])
        /\ Ended =>
              /\ Len(logCalls) = 1
              /\ logCalls[1].status = "Failed"
              /\ Contains(logCalls[1].notes, caught[1])

FetchFailureSeen ==
    /\ fetched = "raised"
    /\ pc = "done"
    /\ Len(logCalls) = 1

\* C8: a run whose fetch returned no email ends with status Success, no sink
\* write, no mark-read call and exactly one run-log write.
ZeroEmailsRun ==
    (Ended /\ fetched = "ok" /\ unread_emails = <<>>) =>
        /\ workflow_status = "Success"
        /\ sinkCalls = <<>>
        /\ markCalls = <<>>
        /\ Len(logCalls) = 1
        /\ logCalls[1].status = "Success"

ZeroEmailsSeen ==
    /\ pc = "done"
    /\ fetched = "ok"
    /\ unread_emails = <<>>
    /\ Len(logCalls) = 1

\* the category resolver as the claim words it: case-insensitive substring,
\* keys in declaration order, first match wins
Lower(c) ==
    CASE c = "A" -> "a" [] c = "B" -> "b" [] c = "C" -> "c" [] c = "E" -> "e"
      [] c = "G" -> "g" [] c = "H" -> "h" [] c = "I" -> "i" [] c = "L" -> "l"
      [] c = "O" -> "o" [] c = "P" -> "p" [] c = "R" -> "r" [] c = "S" -> "s"
      [] c = "V" -> "v" [] c = "Y" -> "y" [] OTHER -> c

LowerText(t) == [k \in 1..Len(t) |-> Lower(t[k])]

KeyMatches(merchant, key) == Occ(LowerText(merchant), LowerText(key)) # {}

Resolve(merchant, m) ==
    LET hits == {k \in 1..Len(m) : merchant # None /\ KeyMatches(merchant[1], m[k][1])}
    IN  IF hits = {} THEN None ELSE Some(m[Min(hits)][2])

\* C9: a record written to the sink whose extracted category is missing
\* carries the category the mapping resolves for its merchant (first matching
\* key in declaration order); the fallback is written only when there is no
\* merchant or no key matches.
ResolvedCategoryWritten ==
    \A s \in 1..Len(sinkCalls) :
        LET b == sinkCalls[s].bill
            r == Resolve(b.merchant, mapping)
        IN  b.bill_category = None =>
                sinkCalls[s].properties.select = IF r = None THEN "other" ELSE r[1]

\* C10: cleaning a cleaned body changes nothing.
NormalizeIdempotent == Len(out) = 2 => out[2] = out[1]

\* the lines of a text: the pieces between its newlines
Lines(t) ==
    LET starts == {1} \cup {k + 1 : k \in Occ(t, <<NL>>)}
    IN  {SubSeq(t, st, st + LineLen(Drop(t, st - 1)) - 1) : st \in starts}

\* the lines of a text that begin with the quote marker
QuoteLines(t) == {l \in Lines(t) : l # <<>> /\ l[1] = ">"}

\* C11: no line of the body's text that begins with '>', the first line
\* included, is a line of the cleaned body.
QuoteLinesRemoved ==
    Len(out) >= 1 => QuoteLines(GetText(raw)) \cap Lines(out[1]) = {}

\* C12: the amount of every BillInfo extract_bill_info returns, if present, and
\* the number of every page written to the sink is a non-negative number.
AmountNonNegative ==
    /\ \A k \in 1..Len(extractCalls) :
          LET r == extractCalls[k].result
          IN  (r # None /\ r[1].amount # None) => r[1].amount[1] \in Nat
    /\ \A s \in 1..Len(sinkCalls) : sinkCalls[s].properties.number \in Nat

\* where the mail source listed the email
Pos(id) == CHOOSE k \in 1..Len(unread_emails) : unread_emails[k].id = id

\* extract, then sink write, then mark-read
Rank(op) == CASE op = "extract" -> 1 [] op = "sink" -> 2 [] op = "mark" -> 3

ItemSteps == {a \in 1..Len(events) : events[a].op # "log"}
ExtractSteps == {a \in ItemSteps : events[a].op = "extract"}

\* C13: the item steps of a run follow the order of the fetched list, one item
\* at a time and none skipped; for one email they are extract, then sink write,
\* then mark-read, each at most once and none without the one before it; and
\* the run-log write comes after every item step.
StepsInOrder ==
    /\ \A a, b \in ItemSteps :
          a < b => /\ Pos(events[a].id) <= Pos(events[b].id)
                   /\ events[a].id = events[b].id
                         => Rank(events[a].op) < Rank(events[b].op)
    /\ \A a \in ExtractSteps :
          Pos(events[a].id) = Cardinality({b \in ExtractSteps : b <= a})
    /\ \A b \in ItemSteps :
          events[b].op # "extract" =>
              \E a \in ItemSteps :
                  /\ a < b
                  /\ events[a].id = events[b].id
                  /\ Rank(events[a].op) = Rank(events[b].op) - 1
    /\ \A a \in 1..Len(events) : events[a].op = "log" => a = Len(events)

AllStepsSeen ==
    /\ pc = "done"
    /\ Len(events) = 7
    /\ events[3].op = "mark"
    /\ events[4] = [op |-> "extract", id |-> unread_emails[2].id]
    /\ events[7].op = "log"

====
